---- MODULE Spec2Model ----
(***************************************************************************)
(* Model of the CASVE decision-support backend (BE/):                      *)
(*   routers/llm.py      generate_options handler and its response parser  *)
(*   routers/report.py   save_report_data handler                          *)
(*   services/openai_service.py  Generation Client and Prompt Builder      *)
(*   utils/logger.py     per-session JSON log files                        *)
(*                                                                         *)
(* Text is a sequence of tokens; a token stands for the characters it      *)
(* spells (FENCE for the three-backtick fence marker, NL for a newline).   *)
(***************************************************************************)
EXTENDS Integers, Sequences, FiniteSets, TLC

VARIABLES
    activity,     \* session -> content of logs/<session>/user_activity.json
    generations,  \* session -> content of logs/<session>/llm_generations.json
    report,       \* session -> content of logs/<session>/report_data.json
    applog,       \* set of messages written through the process logger
    now,          \* the wall clock read by datetime.now()
    served,       \* session -> the requests served for it so far, in order
    last,         \* the most recently completed request and its response
    inflight,     \* request id -> handler position of a request being served
    steps,        \* Prompt Builder input (step0, step1, step2)
    prompt,       \* Prompt Builder output
    content,      \* text handed to the Response Parser
    parsed        \* Response Parser outcome

vars == <<activity, generations, report, applog, now, served, last, inflight,
          steps, prompt, content, parsed>>

----------------------------------------------------------------------------
(* Bounds *)

MaxRequests == 2
MaxOptions == 1
MaxStrLen == 2
NumWorkers == 2

----------------------------------------------------------------------------
(* Python str operations used by the code, on token sequences *)

\* the markdown fence marker, three backticks
FENCE == "<fence>"
NL == "\n"
SP == " "
QUOTE == "\""

Whitespace == {NL, SP}

SubText(s, i, j) == IF i > j THEN <<>> ELSE SubSeq(s, i, j)

\* F applied to the value of x, x evaluated once (a local variable assignment)
With(x, F(_)) == CHOOSE r \in {F(v) : v \in {x}} : TRUE

\* str.startswith(prefix)
StartsWith(s, p) == Len(s) >= Len(p) /\ SubSeq(s, 1, Len(p)) = p

\* position of the first occurrence of sep in s at or after i, 0 if none
RECURSIVE Find(_, _, _)
Find(s, sep, i) ==
    IF i + Len(sep) - 1 > Len(s) THEN 0
    ELSE IF SubSeq(s, i, i + Len(sep) - 1) = sep THEN i
    ELSE Find(s, sep, i + 1)

\* str.split(sep): the pieces between successive occurrences of sep
RECURSIVE SplitFrom(_, _, _)
SplitFrom(s, sep, i) ==
    LET k == Find(s, sep, i)
    IN  IF k = 0 THEN <<SubText(s, i, Len(s))>>
        ELSE <<SubText(s, i, k - 1)>> \o SplitFrom(s, sep, k + Len(sep))

Split(s, sep) == SplitFrom(s, sep, 1)

\* str.strip(): leading and trailing whitespace removed
RECURSIVE LStrip(_)
LStrip(s) == IF s # <<>> /\ Head(s) \in Whitespace THEN LStrip(Tail(s)) ELSE s

RECURSIVE RStrip(_)
RStrip(s) ==
    IF s # <<>> /\ s[Len(s)] \in Whitespace THEN RStrip(SubSeq(s, 1, Len(s) - 1))
    ELSE s

Strip(s) == RStrip(LStrip(s))

\* sep.join(parts) for a sequence of texts
RECURSIVE Join(_, _)
Join(sep, parts) ==
    IF parts = <<>> THEN <<>>
    ELSE IF Len(parts) = 1 THEN parts[1]
    ELSE parts[1] \o sep \o Join(sep, Tail(parts))

----------------------------------------------------------------------------
(* JSON values and json.loads *)

JStr(s) == [t |-> "str", s |-> s, keys |-> <<>>, items |-> <<>>]
JArr(items) == [t |-> "arr", s |-> <<>>, keys |-> <<>>, items |-> items]
JObj(keys, items) == [t |-> "obj", s |-> <<>>, keys |-> keys, items |-> items]
JNull == [t |-> "null", s |-> <<>>, keys |-> <<>>, items |-> <<>>]

ParseFail == [ok |-> FALSE, val |-> JNull, next |-> 0]

RECURSIVE SkipWs(_, _)
SkipWs(s, i) == IF i <= Len(s) /\ s[i] \in Whitespace THEN SkipWs(s, i + 1) ELSE i

\* index of the closing quote of a string whose body starts at i; 0 when the
\* string is unterminated or holds a control character (strict mode)
RECURSIVE StringEnd(_, _)
StringEnd(s, i) ==
    IF i > Len(s) THEN 0
    ELSE IF s[i] = QUOTE THEN i
    ELSE IF s[i] = NL THEN 0
    ELSE StringEnd(s, i + 1)

RECURSIVE ScanOnce(_, _)
RECURSIVE ScanElems(_, _, _)
RECURSIVE ScanMembers(_, _, _, _)

\* after one array element: "," and another element, or "]"
ScanElems(s, i, acc) ==
    With(ScanOnce(s, i), LAMBDA v :
        IF ~v.ok THEN ParseFail
        ELSE LET j == SkipWs(s, v.next)
             IN  IF j > Len(s) THEN ParseFail
                 ELSE IF s[j] = "]"
                      THEN [ok |-> TRUE, val |-> JArr(Append(acc, v.val)), next |-> j + 1]
                 ELSE IF s[j] = ","
                      THEN ScanElems(s, SkipWs(s, j + 1), Append(acc, v.val))
                 ELSE ParseFail)

\* object members: "key" : value , ...  }
ScanMembers(s, i, keys, items) ==
    IF i > Len(s) \/ s[i] # QUOTE THEN ParseFail
    ELSE LET e == StringEnd(s, i + 1)
             c == SkipWs(s, e + 1)
         IN  IF e = 0 THEN ParseFail
             ELSE IF c > Len(s) \/ s[c] # ":" THEN ParseFail
             ELSE With(ScanOnce(s, SkipWs(s, c + 1)), LAMBDA v :
                    IF ~v.ok THEN ParseFail
                    ELSE LET j  == SkipWs(s, v.next)
                             ks == Append(keys, SubText(s, i + 1, e - 1))
                             vs == Append(items, v.val)
                         IN  IF j > Len(s) THEN ParseFail
                             ELSE IF s[j] = "}"
                                  THEN [ok |-> TRUE, val |-> JObj(ks, vs), next |-> j + 1]
                             ELSE IF s[j] = ","
                                  THEN ScanMembers(s, SkipWs(s, j + 1), ks, vs)
                             ELSE ParseFail)

\* one JSON value starting exactly at i
ScanOnce(s, i) ==
    IF i > Len(s) THEN ParseFail
    ELSE IF s[i] = QUOTE THEN
        LET e == StringEnd(s, i + 1)
        IN  IF e = 0 THEN ParseFail
            ELSE [ok |-> TRUE, val |-> JStr(SubText(s, i + 1, e - 1)), next |-> e + 1]
    ELSE IF s[i] = "null" THEN [ok |-> TRUE, val |-> JNull, next |-> i + 1]
    ELSE IF s[i] = "[" THEN
        LET j == SkipWs(s, i + 1)
        IN  IF j <= Len(s) /\ s[j] = "]"
            THEN [ok |-> TRUE, val |-> JArr(<<>>), next |-> j + 1]
            ELSE ScanElems(s, j, <<>>)
    ELSE IF s[i] = "{" THEN
        LET j == SkipWs(s, i + 1)
        IN  IF j <= Len(s) /\ s[j] = "}"
            THEN [ok |-> TRUE, val |-> JObj(<<>>, <<>>), next |-> j + 1]
            ELSE ScanMembers(s, j, <<>>, <<>>)
    ELSE ParseFail

\* json.loads(text): one value, whitespace around it allowed, nothing else;
\* ok = FALSE stands for json.JSONDecodeError
JsonLoads(s) ==
    With(ScanOnce(s, SkipWs(s, 1)), LAMBDA v :
        IF v.ok /\ SkipWs(s, v.next) > Len(s) THEN [ok |-> TRUE, val |-> v.val]
        ELSE [ok |-> FALSE, val |-> JNull])

----------------------------------------------------------------------------
(* Response Parser: routers/llm.py, generate_options, the inner try block *)

JSON_FENCE == <<FENCE, "json">>
PLAIN_FENCE == <<FENCE>>

\* the text json.loads is given: the code-fence wrapper removed when the text
\* starts with one
StripFence(text) ==
    IF StartsWith(text, JSON_FENCE)
    THEN Strip(Split(Split(text, JSON_FENCE)[2], PLAIN_FENCE)[1])
    ELSE IF StartsWith(text, PLAIN_FENCE)
    THEN Strip(Split(Split(text, PLAIN_FENCE)[2], PLAIN_FENCE)[1])
    ELSE text

\* dict.get(key, default): the value of the last member named key
RECURSIVE DictGetFrom(_, _, _, _)
DictGetFrom(obj, key, default, i) ==
    IF i = 0 THEN default
    ELSE IF obj.keys[i] = key THEN obj.items[i]
    ELSE DictGetFrom(obj, key, default, i - 1)

DictGet(obj, key, default) == DictGetFrom(obj, key, default, Len(obj.keys))

\* outcome of the parse block for the text the Generation Client returned:
\*   "ok"            options extracted
\*   "decode_error"  json.JSONDecodeError, caught by the inner except
\*   "attr_error"    parsed_response has no .get (not a dict): AttributeError,
\*                   which the inner except does not catch
ParseResponse(text) ==
    With(StripFence(text), LAMBDA stripped :
        With(JsonLoads(stripped), LAMBDA loaded :
            IF ~loaded.ok
            THEN [kind |-> "decode_error", content |-> stripped, options |-> JNull]
            ELSE IF loaded.val.t # "obj"
            THEN [kind |-> "attr_error", content |-> stripped, options |-> JNull]
            ELSE [kind |-> "ok", content |-> stripped,
                  options |-> DictGet(loaded.val, <<"options">>, JArr(<<>>))]))

----------------------------------------------------------------------------
(* Texts a model may return: JSON documents written out, with or without a
   fence around them *)

RECURSIVE Render(_)
RECURSIVE RenderItems(_)
RECURSIVE RenderMembers(_, _)

RenderItems(items) ==
    IF items = <<>> THEN <<>>
    ELSE IF Len(items) = 1 THEN Render(items[1])
    ELSE Render(items[1]) \o <<",", SP>> \o RenderItems(Tail(items))

RenderMembers(keys, items) ==
    IF keys = <<>> THEN <<>>
    ELSE LET m == <<QUOTE>> \o keys[1] \o <<QUOTE, ":", SP>> \o Render(items[1])
         IN  IF Len(keys) = 1 THEN m
             ELSE m \o <<",", SP>> \o RenderMembers(Tail(keys), Tail(items))

Render(v) ==
    IF v.t = "str" THEN <<QUOTE>> \o v.s \o <<QUOTE>>
    ELSE IF v.t = "null" THEN <<"null">>
    ELSE IF v.t = "arr" THEN <<"[">> \o RenderItems(v.items) \o <<"]">>
    ELSE <<"{">> \o RenderMembers(v.keys, v.items) \o <<"}">>

SeqsUpTo(S, n) == UNION {[1..k -> S] : k \in 0..n}

\* characters a string value of an option may hold
StringTokens == {"a", FENCE, "json"}

OptionStrings == SeqsUpTo(StringTokens, MaxStrLen)

OptionItems ==
    {JStr(s) : s \in OptionStrings}
        \cup {JObj(<< <<"title">> >>, <<JStr(s)>>) : s \in OptionStrings}

\* the documents {"options": [...]}
OptionsDocs ==
    {JObj(<< <<"options">> >>, <<JArr(items)>>) : items \in SeqsUpTo(OptionItems, MaxOptions)}

Wrappers == {"json_fence", "plain_fence", "json_fence_after_newline"}

Wrap(w, text) ==
    IF w = "json_fence" THEN JSON_FENCE \o <<NL>> \o text \o <<NL, FENCE>>
    ELSE IF w = "plain_fence" THEN PLAIN_FENCE \o <<NL>> \o text \o <<NL, FENCE>>
    ELSE <<NL>> \o JSON_FENCE \o <<NL>> \o text \o <<NL, FENCE>>

NotParsed == [kind |-> "pending", content |-> <<>>, options |-> JNull]

----------------------------------------------------------------------------
(* Prompt Builder: services/openai_service.py, OpenAIService._build_prompt *)

\* an Optional[str] field after model_dump(): None, or a text
NoneText == [none |-> TRUE, s |-> <<>>]
Text(s) == [none |-> FALSE, s |-> s]

\* Python truth value of an Optional[str] and of a list
TruthyText(x) == ~x.none /\ x.s # <<>>
TruthyList(l) == l # <<>>

\* ', '.join(items) for a list of one-token strings
JoinItems(items) == Join(<<", ">>, [i \in 1..Len(items) |-> <<items[i]>>])

\* prompt_parts.append(f"**Label**: {', '.join(items)}")
ListLine(label, items) == <<label>> \o JoinItems(items)

\* the same append under "if items:"
OptListLine(label, items) == IF TruthyList(items) THEN <<ListLine(label, items)>> ELSE <<>>

\* "if text: prompt_parts.append(f"**Label**: {text}")"
OptTextLine(label, x) == IF TruthyText(x) THEN << <<label>> \o x.s >> ELSE <<>>

\* the three Step 0 fields appended with no test of their lists
ProfileLines_Conditional(step0) ==
    OptListLine("**Values**: ", step0.values)
        \o OptListLine("**Interests**: ", step0.interests)
        \o OptListLine("**Strengths**: ", step0.strengths)
ProfileLines(step0) ==
    << ListLine("**Values**: ", step0.values),
       ListLine("**Interests**: ", step0.interests),
       ListLine("**Strengths**: ", step0.strengths) >>

PromptParts(step0, step1, step2) ==
    << <<"# User Profile and Decision Context", NL>>,
       <<"## Step 0: Self Profile">> >>
    \o ProfileLines(step0)
    \o OptListLine("**Must-Have Constraints**: ", step0.mustHaveConstraints)
    \o OptListLine("**Nice-to-Have Constraints**: ", step0.niceToHaveConstraints)
    \o OptTextLine("**Current Concerns**: ", step0.concerns)
    \o << <<NL, "## Step 1: Problem Definition">> >>
    \o OptTextLine("**Decision Problem**: ", step1.problemDefinition)
    \o OptListLine("**Internal Signals**: ", step1.internalCues)
    \o OptListLine("**External Signals**: ", step1.externalCues)
    \o OptListLine("**Key Questions**: ", step1.keyQuestions)
    \o << <<NL, "## Step 2: Evaluation Criteria">> >>
    \o OptListLine("**Comparison Criteria**: ", step2.evaluationCriteria)
    \o OptListLine("**Additional Constraints**: ", step2.constraints)
    \o << <<NL, "---">>,
          <<"Based on this information, generate exactly 5 personalized career/decision options.">> >>

\* "\n".join(prompt_parts)
BuildPrompt(step0, step1, step2) == Join(<<NL>>, PromptParts(step0, step1, step2))

\* the lines of a text
Lines(text) == Split(text, <<NL>>)

FieldLabels ==
    {"**Values**: ", "**Interests**: ", "**Strengths**: ",
     "**Must-Have Constraints**: ", "**Nice-to-Have Constraints**: ",
     "**Current Concerns**: ", "**Decision Problem**: ", "**Internal Signals**: ",
     "**External Signals**: ", "**Key Questions**: ", "**Comparison Criteria**: ",
     "**Additional Constraints**: "}

\* the labels of the field lines of a prompt, in order
FieldLinesOf(text) ==
    SelectSeq(Lines(text), LAMBDA l : l # <<>> /\ l[1] \in FieldLabels)

\* worksheet answers: the three profile lists take every sample list, the
\* other lists the empty list and a list of two items
ProfileLists == {<<>>, <<"growth">>, <<"growth", "salary">>}
SampleLists == {<<>>, <<"salary", "growth">>}
SampleTexts == {NoneText, Text(<<>>), Text(<<"choose a job">>)}

Step0Inputs ==
    [values : ProfileLists, interests : ProfileLists, strengths : ProfileLists,
     mustHaveConstraints : SampleLists, niceToHaveConstraints : SampleLists,
     concerns : SampleTexts]
Step1Inputs ==
    [problemDefinition : SampleTexts, internalCues : SampleLists,
     externalCues : SampleLists, keyQuestions : SampleLists]
Step2Inputs == [evaluationCriteria : SampleLists, constraints : SampleLists]

EmptyStep0 ==
    [values |-> <<>>, interests |-> <<>>, strengths |-> <<>>,
     mustHaveConstraints |-> <<>>, niceToHaveConstraints |-> <<>>, concerns |-> NoneText]
EmptyStep1 ==
    [problemDefinition |-> NoneText, internalCues |-> <<>>, externalCues |-> <<>>,
     keyQuestions |-> <<>>]
EmptyStep2 == [evaluationCriteria |-> <<>>, constraints |-> <<>>]
EmptySteps == [step0 |-> EmptyStep0, step1 |-> EmptyStep1, step2 |-> EmptyStep2]

NotBuilt == [built |-> FALSE, text |-> <<>>]

----------------------------------------------------------------------------
(* Session log files: utils/logger.py *)

Sessions == {"s1", "s2"}

\* content of a file under logs/<session>/:
\*   "absent"   the file does not exist
\*   "list"     a JSON list; entries are its elements
\*   "object"   a single JSON object (the report snapshot); entries holds it
\*   "invalid"  bytes json.load rejects with JSONDecodeError
\*   "nonlist"  valid JSON whose top-level value is not a list, such as {}
Absent == [kind |-> "absent", entries |-> <<>>]
ListFile(es) == [kind |-> "list", entries |-> es]
ObjectFile(e) == [kind |-> "object", entries |-> <<e>>]
InvalidJson == [kind |-> "invalid", entries |-> <<>>]
NonList == [kind |-> "nonlist", entries |-> <<>>]

\* logs = []; if log_file.exists(): try logs = json.load(f)
\*                                  except json.JSONDecodeError: logs = []
LoadLogs(file) ==
    IF file.kind = "list" THEN [isList |-> TRUE, entries |-> file.entries]
    ELSE IF file.kind \in {"absent", "invalid"} THEN [isList |-> TRUE, entries |-> <<>>]
    ELSE [isList |-> FALSE, entries |-> <<>>]

\* logs.append(log_entry); json.dump(logs, f) with the file opened "w"
DumpLogs_Overwrite(logs, entry) == ListFile(<<entry>>)
DumpLogs_Prepend(logs, entry) == ListFile(<<entry>> \o logs.entries)
DumpLogs(logs, entry) == ListFile(Append(logs.entries, entry))

\* the read-modify-write of both append operations; raised stands for the
\* AttributeError of logs.append on a value that is not a list
AppendLog(file, entry) ==
    LET logs == LoadLogs(file)
    IN  IF logs.isList
        THEN [raised |-> FALSE, file |-> DumpLogs(logs, entry), error |-> ""]
        ELSE [raised |-> TRUE, file |-> file,
              error |-> "'dict' object has no attribute 'append'"]

ActivityEntry(ts, activity_type, data) ==
    [timestamp |-> ts, activity_type |-> activity_type, data |-> data]

log_user_activity_NoAppend(file, ts, activity_type, data) ==
    [raised |-> FALSE, file |-> ListFile(LoadLogs(file).entries), error |-> ""]
log_user_activity(file, ts, activity_type, data) ==
    AppendLog(file, ActivityEntry(ts, activity_type, data))

GenerationEntry(ts, prompt_, response, model, tokens_used) ==
    [timestamp |-> ts, model |-> model, tokens_used |-> tokens_used,
     prompt |-> prompt_, response |-> response]

log_llm_generation(file, ts, prompt_, response, model, tokens_used) ==
    AppendLog(file, GenerationEntry(ts, prompt_, response, model, tokens_used))

ReportEntry(ts, payload) ==
    [timestamp |-> ts, step0 |-> payload.step0, step1 |-> payload.step1,
     step2 |-> payload.step2, step3 |-> payload.step3, step4 |-> payload.step4]

\* the file is opened "w" and the one snapshot is dumped: nothing is read
log_report_data_Accumulate(file, ts, payload) ==
    IF file.kind = "absent" THEN ObjectFile(ReportEntry(ts, payload))
    ELSE [kind |-> "list", entries |-> Append(file.entries, ReportEntry(ts, payload))]
log_report_data(file, ts, payload) == ObjectFile(ReportEntry(ts, payload))

\* a line of the process log (logs/app.log and the console)
LogLine(level, msg, arg, text) == [level |-> level, msg |-> msg, arg |-> arg, text |-> text]

----------------------------------------------------------------------------
(* Generation Client: services/openai_service.py, OpenAIService.generate_options *)

MODEL == "gpt-4o"

\* what the chat-completion call can do: raise, or return a text
ErrorTexts == {"Connection error.", "Incorrect API key provided: sk-test"}

GoodDoc == JObj(<< <<"options">> >>, <<JArr(<<JObj(<< <<"title">> >>, <<JStr(<<"a">>)>>)>>)>>)

\* a document, the same inside a json fence, prose, a JSON list, and a
\* document whose "options" is not a list
SampleContents ==
    { Render(GoodDoc),
      Wrap("json_fence", Render(GoodDoc)),
      <<"a">>,
      <<"[", "]">>,
      Render(JObj(<< <<"options">> >>, <<JStr(<<"a">>)>>)) }

\* time the chat-completion call may take, in clock ticks
CallDurations == {0, 1}

ApiOutcomes ==
    {[raises |-> TRUE, message |-> e, text |-> <<>>] : e \in ErrorTexts}
        \cup {[raises |-> FALSE, message |-> "", text |-> c] : c \in SampleContents}

TokensUsed == [prompt_tokens |-> 100, completion_tokens |-> 50, total_tokens |-> 150]

\* the normalized result; the prompt is built first and cannot fail
ClientResult(step0, step1, step2, api) ==
    LET user_prompt == BuildPrompt(step0, step1, step2)
    IN  IF api.raises
        THEN [success |-> FALSE, error |-> api.message, content |-> <<>>,
              tokens_used |-> TokensUsed, model |-> ""]
        ELSE [success |-> TRUE, error |-> "", content |-> api.text,
              tokens_used |-> TokensUsed, model |-> MODEL]

ClientLog(api) ==
    {LogLine("INFO", "Sending request to OpenAI", MODEL, <<>>)}
        \cup (IF api.raises
              THEN {LogLine("ERROR", "OpenAI API error: ", api.message, <<>>)}
              ELSE {LogLine("INFO", "OpenAI response received. Tokens used", "", <<>>)})

----------------------------------------------------------------------------
(* generate-options handler: routers/llm.py, generate_options *)

GENERIC_FAILURE == "LLM generation failed"
PARSE_FAILURE == "Failed to parse LLM response"
PROMPT_NOTE == "Steps 0-2 data (see user_activity log)"

Response(status, detail, options, hasOptions) ==
    [status |-> status, detail |-> detail, options |-> options, hasOptions |-> hasOptions]

ErrorResponse(detail) == Response(500, detail, JNull, FALSE)

\* detail=result.get("error", "LLM generation failed"): every failure result
\* of the client carries "error", so the default is never used
FailureDetail_Generic(result) == GENERIC_FAILURE
FailureDetail(result) == result.error

\* str(e) of the AttributeError raised by parsed_response.get
AttrErrorText(text) ==
    LET v == JsonLoads(StripFence(text)).val
    IN  IF v.t = "arr" THEN "'list' object has no attribute 'get'"
        ELSE IF v.t = "str" THEN "'str' object has no attribute 'get'"
        ELSE "'NoneType' object has no attribute 'get'"

\* the handler reaches log_llm_generation only past both raise statements
ReachesGenerationLog_Always(result, parse) == TRUE
ReachesGenerationLog(result, parse) == result.success /\ parse.kind = "ok"

\* GenerateOptionsResponse(options=...): Optional[List[Dict[str, Any]]]
ValidOptions(options) ==
    options.t = "arr" /\ \A i \in 1..Len(options.items) : options.items[i].t = "obj"

\* everything one request does: the files after it, the lines it logged, the
\* response, and how far it got. t1 and t2 are the values of datetime.now()
\* in log_user_activity and in log_llm_generation
HandleGenerate(session, actFile, genFile, data, api, t1, t2) ==
    LET received == {LogLine("INFO", "Received generate options request for session", session, <<>>)}
        generated == {LogLine("INFO", "Successfully generated options for session", session, <<>>)}
        unexpected(text) == {LogLine("ERROR", "Unexpected error in generate_options: ", text, <<>>)}
        out(stage, a, g, lines, resp) ==
            [stage |-> stage, activity |-> a, generations |-> g,
             log |-> received \cup lines, response |-> resp]
    IN
    With(log_user_activity(actFile, t1, "generate_options_request", data), LAMBDA act :
      IF act.raised
      THEN out("activity_log_raised", actFile, genFile, unexpected(act.error),
               ErrorResponse(act.error))
      ELSE
    With(ClientResult(data.step0, data.step1, data.step2, api), LAMBDA result :
    With(ParseResponse(result.content), LAMBDA parse :
      IF ~ReachesGenerationLog(result, parse)
      THEN IF ~result.success
           THEN out("generation_failed", act.file, genFile, ClientLog(api),
                    ErrorResponse(FailureDetail(result)))
           ELSE IF parse.kind = "decode_error"
           THEN out("decode_error", act.file, genFile,
                    ClientLog(api) \cup
                      {LogLine("ERROR", "Failed to parse LLM response as JSON", "", <<>>),
                       LogLine("ERROR", "Raw response: ", "", result.content)},
                    ErrorResponse(PARSE_FAILURE))
           ELSE out("not_an_object", act.file, genFile,
                    ClientLog(api) \cup unexpected(AttrErrorText(result.content)),
                    ErrorResponse(AttrErrorText(result.content)))
      ELSE
    With(log_llm_generation(genFile, t2, PROMPT_NOTE, parse.content,
                            result.model, result.tokens_used), LAMBDA gen :
      IF gen.raised
      THEN out("generation_log_raised", act.file, genFile,
               ClientLog(api) \cup unexpected(gen.error), ErrorResponse(gen.error))
      ELSE IF parse.options.t = "null"
      THEN out("options_rejected", act.file, gen.file,
               ClientLog(api) \cup unexpected("object of type 'NoneType' has no len()"),
               ErrorResponse("object of type 'NoneType' has no len()"))
      ELSE IF ~ValidOptions(parse.options)
      THEN out("options_rejected", act.file, gen.file,
               ClientLog(api) \cup generated
                 \cup unexpected("validation error for GenerateOptionsResponse"),
               ErrorResponse("validation error for GenerateOptionsResponse"))
      ELSE out("ok", act.file, gen.file, ClientLog(api) \cup generated,
               Response(200, "", parse.options, TRUE))))))

----------------------------------------------------------------------------
(* save-report handler: routers/report.py, save_report_data *)

ReportDicts == {JObj(<<>>, <<>>), JObj(<< <<"k">> >>, <<JStr(<<"a">>)>>)}

ReportPayloads ==
    {[step0 |-> d, step1 |-> d, step2 |-> d, step3 |-> d, step4 |-> e] :
        d \in ReportDicts, e \in {JObj(<<>>, <<>>)}}

HandleSaveReport(session, repFile, payload, ts) ==
    [report |-> log_report_data(repFile, ts, payload),
     log |-> {LogLine("INFO", "Saving report data for session", session, <<>>),
              LogLine("INFO", "Report data saved successfully for session", session, <<>>)},
     response |-> Response(200, "Report data saved successfully", JNull, FALSE)]

----------------------------------------------------------------------------
(* The service handling one request at a time *)

\* the worksheet of the end-to-end scenario
ScenarioSteps ==
    [step0 |-> [EmptyStep0 EXCEPT !.values = <<"growth">>],
     step1 |-> [EmptyStep1 EXCEPT !.problemDefinition = Text(<<"choose a job">>)],
     step2 |-> [EmptyStep2 EXCEPT !.evaluationCriteria = <<"salary">>]]

GenPayloads == {EmptySteps, ScenarioSteps}

NoApi == [raises |-> FALSE, message |-> "", text |-> <<>>]
NoPayload == CHOOSE p \in ReportPayloads : p.step0 = JObj(<<>>, <<>>) /\ p.step4 = JObj(<<>>, <<>>)

\* a served request: what it was given and how it ended
GenRequest(data, api, t1, t2, stage, status) ==
    [kind |-> "generate", data |-> data, payload |-> NoPayload, api |-> api,
     t1 |-> t1, t2 |-> t2, stage |-> stage, status |-> status]
SaveRequest(payload, ts) ==
    [kind |-> "save", data |-> EmptySteps, payload |-> payload, api |-> NoApi,
     t1 |-> ts, t2 |-> ts, stage |-> "ok", status |-> 200]

NoRequest ==
    [kind |-> "none", session |-> "", stage |-> "", api |-> NoApi,
     response |-> Response(0, "", JNull, FALSE)]

\* the two requests of the concurrent runs
ConcurrentRequests == {"r1", "r2"}

\* a request not yet received
Idle ==
    [pc |-> "idle", session |-> "", worker |-> 0, data |-> EmptySteps, api |-> NoApi,
     t1 |-> 0, t2 |-> 0, logs |-> [isList |-> TRUE, entries |-> <<>>],
     stage |-> "", status |-> 0]

NoInflight == [r \in ConcurrentRequests |-> Idle]

RECURSIVE SumLen(_, _)
SumLen(f, S) ==
    IF S = {} THEN 0
    ELSE LET x == CHOOSE x \in S : TRUE IN Len(f[x]) + SumLen(f, S \ {x})

NumServed == SumLen(served, Sessions)

ServerIdleVars == <<inflight, steps, prompt, content, parsed>>

InitFiles ==
    /\ activity = [s \in Sessions |-> Absent]
    /\ generations = [s \in Sessions |-> Absent]
    /\ report = [s \in Sessions |-> Absent]

InitServer ==
    /\ applog = {}
    /\ now = 0
    /\ served = [s \in Sessions |-> <<>>]
    /\ last = NoRequest
    /\ inflight = NoInflight

InitPure ==
    /\ steps = EmptySteps
    /\ prompt = NotBuilt
    /\ content = <<>>
    /\ parsed = [bare |-> NotParsed, fenced |-> NotParsed, wrapper |-> ""]

Init == InitFiles /\ InitServer /\ InitPure

\* POST /api/generate-options: the whole handler. The clock advances while the
\* handler waits for the chat-completion call, when it gets that far
GenerateOptions ==
    /\ NumServed < MaxRequests
    /\ \E s \in Sessions, data \in GenPayloads, api \in ApiOutcomes, d \in CallDurations :
        \E h \in {HandleGenerate(s, activity[s], generations[s], data, api, now, now + d)} :
            /\ activity' = [activity EXCEPT ![s] = h.activity]
            /\ generations' = [generations EXCEPT ![s] = h.generations]
            /\ applog' = applog \cup h.log
            /\ now' = IF h.stage = "activity_log_raised" THEN now ELSE now + d
            /\ served' = [served EXCEPT ![s] =
                   Append(@, GenRequest(data, api, now, now', h.stage, h.response.status))]
            /\ last' = [kind |-> "generate", session |-> s, stage |-> h.stage,
                        api |-> api, response |-> h.response]
    /\ UNCHANGED <<report, ServerIdleVars>>

\* POST /api/save-report: the whole handler
SaveReport ==
    /\ NumServed < MaxRequests
    /\ \E s \in Sessions, payload \in ReportPayloads :
        \E h \in {HandleSaveReport(s, report[s], payload, now)} :
            /\ report' = [report EXCEPT ![s] = h.report]
            /\ applog' = applog \cup h.log
            /\ served' = [served EXCEPT ![s] = Append(@, SaveRequest(payload, now))]
            /\ last' = [kind |-> "save", session |-> s, stage |-> "ok",
                        api |-> NoApi, response |-> h.response]
    /\ UNCHANGED <<activity, generations, now, ServerIdleVars>>

Next == GenerateOptions \/ SaveReport

Spec == Init /\ [][Next]_vars

----------------------------------------------------------------------------
(* Properties of the service handling one request at a time *)

Last(q) == q[Len(q)]

GenReqs(s) == SelectSeq(served[s], LAMBDA r : r.kind = "generate")
SaveReqs(s) == SelectSeq(served[s], LAMBDA r : r.kind = "save")

\* the generation succeeded and the response parsed: the text decoded to a
\* JSON object
Succeeded(r) == ~r.api.raises /\ ParseResponse(r.api.text).kind = "ok"

ActivityOf(r) == ActivityEntry(r.t1, "generate_options_request", r.data)
GenerationOf(r) ==
    GenerationEntry(r.t2, PROMPT_NOTE, StripFence(r.api.text), MODEL, TokensUsed)

\* session s was served a request of this kind in the step
ServedNow(s, kind) ==
    /\ Len(served'[s]) = Len(served[s]) + 1
    /\ Last(served'[s]).kind = kind

\* C1: starting with no log files, after n generate-options requests for a
\* session that all succeeded (generation succeeded, response parsed), the
\* activity log and the generation log each hold exactly n entries, the i-th
\* being the one the i-th request wrote; nothing earlier is removed or altered.
C1_AppendAccumulation ==
    \A s \in Sessions :
        LET reqs == GenReqs(s)
            act  == activity[s].entries
            gen  == generations[s].entries
        IN  \A n \in 1..Len(reqs) :
                (\A i \in 1..n : Succeeded(reqs[i]))
                => /\ activity[s].kind = "list" /\ generations[s].kind = "list"
                   /\ Len(act) >= n /\ Len(gen) >= n
                   /\ \A i \in 1..n : /\ act[i] = ActivityOf(reqs[i])
                                      /\ gen[i] = GenerationOf(reqs[i])
                   /\ n = Len(reqs) => (Len(act) = n /\ Len(gen) = n)

\* two successful requests with different worksheets for one session
C1_Witness ==
    \E s \in Sessions :
        LET reqs == GenReqs(s)
        IN  /\ Len(reqs) = 2
            /\ Succeeded(reqs[1]) /\ Succeeded(reqs[2])
            /\ reqs[1].data # reqs[2].data
            /\ Len(activity[s].entries) = 2 /\ Len(generations[s].entries) = 2

\* C2: after any sequence of save-report requests the report file holds exactly
\* one snapshot, with the payload of the most recent save-report of the session
\* (earlier payloads are not kept), and save-report never changes the activity
\* log or the generation log.
C2_ReportLastWriteWins ==
    [][ /\ \A s \in Sessions :
             ServedNow(s, "save") =>
                /\ report'[s] = ObjectFile(ReportEntry(now, Last(served'[s]).payload))
                /\ \A o \in Sessions \ {s} : report'[o] = report[o]
                /\ activity' = activity
                /\ generations' = generations
        /\ (\A s \in Sessions : ~ServedNow(s, "save")) => report' = report ]_vars

\* a second save-report with another payload has replaced the first
C2_Witness ==
    \E s \in Sessions :
        LET saves == SaveReqs(s)
        IN  /\ Len(saves) = 2
            /\ saves[1].payload # saves[2].payload
            /\ report[s].kind = "object"
            /\ report[s].entries[1].step0 = saves[2].payload.step0

\* C3: when the Generation Client returns a failure result the handler answers
\* HTTP 500 with no options, the generation log is unchanged and exactly one
\* activity-log entry has been appended; a generation-log entry is appended
\* only after the call succeeded and its response parsed.
C3_FailureNotInGenerationLog ==
    [][ \A s \in Sessions :
          /\ (ServedNow(s, "generate") /\ Last(served'[s]).stage = "generation_failed")
                => /\ last'.response.status = 500
                   /\ ~last'.response.hasOptions
                   /\ generations' = generations
                   /\ activity'[s] = ListFile(Append(activity[s].entries,
                                                     ActivityOf(Last(served'[s]))))
          /\ generations'[s] # generations[s]
                => /\ ServedNow(s, "generate")
                   /\ Succeeded(Last(served'[s]))
                   /\ generations'[s] = ListFile(Append(generations[s].entries,
                                                        GenerationOf(Last(served'[s])))) ]_vars

\* a failed generation for a session that already has a generation log
C3_Witness ==
    /\ last.kind = "generate"
    /\ last.stage = "generation_failed"
    /\ Len(generations[last.session].entries) = 1
    /\ Len(activity[last.session].entries) = 2

\* the text is a parse error: not valid JSON, or JSON that is not an object
IsParseError(text) ==
    With(JsonLoads(StripFence(text)), LAMBDA loaded : ~loaded.ok \/ loaded.val.t # "obj")

\* C4 (as claimed): every returned text that is a parse error, not valid JSON
\* or valid JSON whose top-level value is not an object, is answered with
\* HTTP 500 and the fixed message "Failed to parse LLM response", without
\* options and without a generation-log entry.
C4_ParseErrorFixedMessage ==
    (last.kind = "generate" /\ last.stage # "activity_log_raised"
        /\ ~last.api.raises /\ IsParseError(last.api.text))
      => /\ last.response.status = 500
         /\ last.response.detail = PARSE_FAILURE
         /\ ~last.response.hasOptions

\* C5 (as claimed): when the external call fails the HTTP 500 response carries
\* only a generic message and never the text of the caught exception.
C5_GenericMessageOnly ==
    (last.kind = "generate" /\ last.stage = "generation_failed")
      => /\ last.response.status = 500
         /\ last.response.detail # last.api.message

\* C5 (amended): when the external call fails the HTTP 500 response carries the
\* text of the caught exception as its detail, the same text the process log
\* holds in its "OpenAI API error" line.
C5_ExceptionTextInResponse ==
    (last.kind = "generate" /\ last.stage = "generation_failed")
      => /\ last.response.status = 500
         /\ last.response.detail = last.api.message
         /\ LogLine("ERROR", "OpenAI API error: ", last.api.message, <<>>) \in applog

\* a request whose external call raised has been answered
C5_Witness ==
    /\ last.kind = "generate"
    /\ last.api.raises
    /\ last.api.message \in ErrorTexts
    /\ last.response.status = 500

\* the generate-options requests of s that got as far as writing the
\* generation log, as indices into GenReqs(s)
LoggedIdx(s) ==
    SelectSeq([k \in 1..Len(GenReqs(s)) |-> k],
              LAMBDA k : GenReqs(s)[k].stage \in {"ok", "options_rejected"})

\* C10: with requests served one at a time and the files written by the
\* service only, a session's generation log never holds more entries than its
\* activity log, and every generation-log entry was written after the
\* activity-log entry of the same request.
C10_GenerationsWithinActivity ==
    \A s \in Sessions :
        LET reqs == GenReqs(s)
            idx  == LoggedIdx(s)
        IN  /\ Len(generations[s].entries) <= Len(activity[s].entries)
            /\ Len(generations[s].entries) = Len(idx)
            /\ \A j \in 1..Len(idx) :
                  /\ generations[s].entries[j] = GenerationOf(reqs[idx[j]])
                  /\ idx[j] <= Len(activity[s].entries)
                  /\ activity[s].entries[idx[j]] = ActivityOf(reqs[idx[j]])
                  /\ activity[s].entries[idx[j]].timestamp
                        <= generations[s].entries[j].timestamp

\* a session whose first request failed and whose second was logged
C10_Witness ==
    \E s \in Sessions :
        /\ Len(activity[s].entries) = 2
        /\ Len(generations[s].entries) = 1
        /\ LoggedIdx(s) = <<2>>

----------------------------------------------------------------------------
(* The service started over log files that something else damaged *)

DamagedFiles == {Absent, InvalidJson, NonList}

CorruptInit ==
    /\ activity \in [Sessions -> DamagedFiles]
    /\ generations \in [Sessions -> DamagedFiles]
    /\ activity["s2"] = Absent /\ generations["s2"] = Absent
    /\ report = [s \in Sessions |-> Absent]
    /\ InitServer /\ InitPure

CorruptSpec == CorruptInit /\ [][Next]_vars

IsDamaged(file) == file.kind \in {"invalid", "nonlist"}

\* C9 (as claimed): for both append operations, when the existing log file
\* does not hold a valid JSON sequence (invalid JSON, or valid JSON that is not
\* a list) the append completes without error, discards the old content and
\* leaves exactly one entry, the new one; the request is not failed by it.
C9_DamagedLogReset ==
    [][ \A s \in Sessions :
          ServedNow(s, "generate") =>
            /\ IsDamaged(activity[s])
                  => /\ Last(served'[s]).stage # "activity_log_raised"
                     /\ activity'[s] = ListFile(<<ActivityOf(Last(served'[s]))>>)
            /\ (IsDamaged(generations[s]) /\ Succeeded(Last(served'[s]))
                  /\ Last(served'[s]).stage # "activity_log_raised")
                  => /\ Last(served'[s]).stage # "generation_log_raised"
                     /\ generations'[s] = ListFile(<<GenerationOf(Last(served'[s]))>>) ]_vars

----------------------------------------------------------------------------
(* The Prompt Builder on every worksheet of the sample *)

PromptIdleVars ==
    <<activity, generations, report, applog, now, served, last, inflight, content, parsed>>

PromptInit ==
    /\ InitFiles /\ InitServer
    /\ steps \in [step0 : Step0Inputs, step1 : Step1Inputs, step2 : Step2Inputs]
    /\ prompt = NotBuilt
    /\ content = <<>>
    /\ parsed = [bare |-> NotParsed, fenced |-> NotParsed, wrapper |-> ""]

Build ==
    /\ ~prompt.built
    /\ prompt' = [built |-> TRUE, text |-> BuildPrompt(steps.step0, steps.step1, steps.step2)]
    /\ UNCHANGED <<steps, PromptIdleVars>>

PromptSpec == PromptInit /\ [][Build]_vars

\* C6 (as claimed): for the input whose lists are all empty and whose optional
\* texts are absent the prompt holds no field line at all, only headers and the
\* fixed framing text.
C6_NoFieldLinesWhenEmpty ==
    (prompt.built /\ steps = EmptySteps) => FieldLinesOf(prompt.text) = <<>>

\* the field lines of a prompt must be exactly these, in this order
ExpectedFieldLines(st) ==
    << <<"**Values**: ">> \o JoinItems(st.step0.values),
       <<"**Interests**: ">> \o JoinItems(st.step0.interests),
       <<"**Strengths**: ">> \o JoinItems(st.step0.strengths) >>
    \o (IF st.step0.mustHaveConstraints # <<>>
        THEN << <<"**Must-Have Constraints**: ">> \o JoinItems(st.step0.mustHaveConstraints) >>
        ELSE <<>>)
    \o (IF st.step0.niceToHaveConstraints # <<>>
        THEN << <<"**Nice-to-Have Constraints**: ">> \o JoinItems(st.step0.niceToHaveConstraints) >>
        ELSE <<>>)
    \o (IF TruthyText(st.step0.concerns)
        THEN << <<"**Current Concerns**: ">> \o st.step0.concerns.s >> ELSE <<>>)
    \o (IF TruthyText(st.step1.problemDefinition)
        THEN << <<"**Decision Problem**: ">> \o st.step1.problemDefinition.s >> ELSE <<>>)
    \o (IF st.step1.internalCues # <<>>
        THEN << <<"**Internal Signals**: ">> \o JoinItems(st.step1.internalCues) >> ELSE <<>>)
    \o (IF st.step1.externalCues # <<>>
        THEN << <<"**External Signals**: ">> \o JoinItems(st.step1.externalCues) >> ELSE <<>>)
    \o (IF st.step1.keyQuestions # <<>>
        THEN << <<"**Key Questions**: ">> \o JoinItems(st.step1.keyQuestions) >> ELSE <<>>)
    \o (IF st.step2.evaluationCriteria # <<>>
        THEN << <<"**Comparison Criteria**: ">> \o JoinItems(st.step2.evaluationCriteria) >>
        ELSE <<>>)
    \o (IF st.step2.constraints # <<>>
        THEN << <<"**Additional Constraints**: ">> \o JoinItems(st.step2.constraints) >>
        ELSE <<>>)

\* C6 (amended): the builder never fails; the lines Values, Interests and
\* Strengths are always rendered, with an empty value when the list is empty;
\* every other field's line is omitted exactly when its list or text is empty
\* or absent. For the all-empty input the prompt holds exactly those three
\* lines, each with an empty value.
C6_OnlyProfileLinesWhenEmpty ==
    prompt.built =>
        /\ FieldLinesOf(prompt.text) = ExpectedFieldLines(steps)
        /\ steps = EmptySteps =>
              FieldLinesOf(prompt.text)
                  = << <<"**Values**: ">>, <<"**Interests**: ">>, <<"**Strengths**: ">> >>

\* the all-empty worksheet has been rendered
C6_Witness == prompt.built /\ steps = EmptySteps /\ Len(Lines(prompt.text)) > 3

----------------------------------------------------------------------------
(* The Response Parser on every options document of the sample *)

ParseIdleVars ==
    <<activity, generations, report, applog, now, served, last, inflight, steps, prompt>>

ParseInit ==
    /\ InitFiles /\ InitServer
    /\ steps = EmptySteps
    /\ prompt = NotBuilt
    /\ content \in {Render(d) : d \in OptionsDocs}
    /\ parsed = [bare |-> NotParsed, fenced |-> NotParsed, wrapper |-> ""]

\* the parser on the document as it is
ParseBare ==
    /\ parsed.bare.kind = "pending"
    /\ parsed' = [parsed EXCEPT !.bare = ParseResponse(content)]
    /\ UNCHANGED <<content, ParseIdleVars>>

\* the parser on the document inside a fence
ParseFenced ==
    /\ parsed.fenced.kind = "pending"
    /\ \E w \in Wrappers :
          parsed' = [parsed EXCEPT !.fenced = ParseResponse(Wrap(w, content)),
                                   !.wrapper = w]
    /\ UNCHANGED <<content, ParseIdleVars>>

ParseNext == ParseBare \/ ParseFenced

ParseSpec == ParseInit /\ [][ParseNext]_vars

\* C7 (as claimed): for every valid {"options": [...]} text, the parser on the
\* text inside a json fence returns exactly the options it returns on the bare
\* text, also when string values hold fence markers and wherever the fence
\* marker stands in the returned text.
C7_FenceRoundTrip ==
    (parsed.bare.kind # "pending" /\ parsed.fenced.kind # "pending"
        /\ parsed.wrapper \in {"json_fence", "json_fence_after_newline"})
      => /\ parsed.bare.kind = "ok"
         /\ parsed.fenced.kind = "ok"
         /\ parsed.fenced.options = parsed.bare.options

----------------------------------------------------------------------------
(* Two generate-options requests served concurrently.

   The handler is an async def with no await in its body, so one event loop
   (one worker process) runs it from start to end before it takes the next
   request. Requests given to different worker processes of the same
   application run side by side, and each file operation of the logger (the
   read, the open for writing, the dump) is a step of its own. *)

Workers == 1..NumWorkers

MidHandler(r) == inflight[r].pc \notin {"idle", "done"}

Busy(w) == \E r \in ConcurrentRequests : MidHandler(r) /\ inflight[r].worker = w

ConcIdleVars == <<report, served, last, steps, prompt, content, parsed>>

\* what the call does in the concurrent runs: it raises, returns a document,
\* or returns prose
ConcApiOutcomes ==
    {api \in ApiOutcomes :
        \/ api.message = "Connection error."
        \/ (~api.raises /\ api.text \in {Render(GoodDoc), <<"a">>})}

\* what the handler answers and logs when no logger call raises: the response
\* does not depend on what the log files held
OutcomeOf(q) == HandleGenerate(q.session, Absent, Absent, q.data, q.api, q.t1, q.t2)

\* a worker process that is not running a handler takes the request
Receive(r) ==
    /\ inflight[r].pc = "idle"
    /\ \E w \in Workers, s \in Sessions, data \in GenPayloads :
          /\ ~Busy(w)
          /\ inflight' = [inflight EXCEPT ![r] =
                 [@ EXCEPT !.pc = "read_activity", !.worker = w, !.session = s, !.data = data]]
    /\ UNCHANGED <<activity, generations, applog, now, ConcIdleVars>>

\* log_user_activity up to logs = json.load(f)
ReadActivity(r) ==
    /\ inflight[r].pc = "read_activity"
    /\ \E logs \in {LoadLogs(activity[inflight[r].session])} :
          inflight' = [inflight EXCEPT ![r] =
              [@ EXCEPT !.pc = IF logs.isList THEN "open_activity" ELSE "done",
                        !.t1 = now, !.logs = logs,
                        !.stage = IF logs.isList THEN "" ELSE "activity_log_raised",
                        !.status = IF logs.isList THEN 0 ELSE 500]]
    /\ UNCHANGED <<activity, generations, applog, now, ConcIdleVars>>

\* open(log_file, 'w') empties the file
OpenActivity(r) ==
    /\ inflight[r].pc = "open_activity"
    /\ activity' = [activity EXCEPT ![inflight[r].session] = InvalidJson]
    /\ inflight' = [inflight EXCEPT ![r].pc = "dump_activity"]
    /\ UNCHANGED <<generations, applog, now, ConcIdleVars>>

\* logs.append(log_entry) and json.dump(logs, f)
DumpActivity(r) ==
    /\ inflight[r].pc = "dump_activity"
    /\ activity' = [activity EXCEPT ![inflight[r].session] =
                        DumpLogs(inflight[r].logs, ActivityOf(inflight[r]))]
    /\ inflight' = [inflight EXCEPT ![r].pc = "call"]
    /\ UNCHANGED <<generations, applog, now, ConcIdleVars>>

\* the chat-completion call and the parse of what it returned
CallAndParse(r) ==
    /\ inflight[r].pc = "call"
    /\ \E api \in ConcApiOutcomes, d \in CallDurations :
        \E q \in {[inflight[r] EXCEPT !.api = api, !.t2 = now + d]} :
        \E h \in {OutcomeOf(q)} :
          /\ now' = now + d
          /\ IF h.stage \in {"ok", "options_rejected"}
             THEN /\ inflight' = [inflight EXCEPT ![r] = [q EXCEPT !.pc = "read_generations"]]
                  /\ applog' = applog
             ELSE /\ inflight' = [inflight EXCEPT ![r] =
                        [q EXCEPT !.pc = "done", !.stage = h.stage,
                                  !.status = h.response.status]]
                  /\ applog' = applog \cup h.log
    /\ UNCHANGED <<activity, generations, ConcIdleVars>>

\* log_llm_generation up to logs = json.load(f)
ReadGenerations(r) ==
    /\ inflight[r].pc = "read_generations"
    /\ \E logs \in {LoadLogs(generations[inflight[r].session])} :
          inflight' = [inflight EXCEPT ![r] =
              [@ EXCEPT !.pc = IF logs.isList THEN "open_generations" ELSE "done",
                        !.logs = logs,
                        !.stage = IF logs.isList THEN "" ELSE "generation_log_raised",
                        !.status = IF logs.isList THEN 0 ELSE 500]]
    /\ UNCHANGED <<activity, generations, applog, now, ConcIdleVars>>

OpenGenerations(r) ==
    /\ inflight[r].pc = "open_generations"
    /\ generations' = [generations EXCEPT ![inflight[r].session] = InvalidJson]
    /\ inflight' = [inflight EXCEPT ![r].pc = "dump_generations"]
    /\ UNCHANGED <<activity, applog, now, ConcIdleVars>>

\* the dump of the generation log, then the response
DumpGenerations(r) ==
    /\ inflight[r].pc = "dump_generations"
    /\ \E h \in {OutcomeOf(inflight[r])} :
          /\ generations' = [generations EXCEPT ![inflight[r].session] =
                                DumpLogs(inflight[r].logs, GenerationOf(inflight[r]))]
          /\ inflight' = [inflight EXCEPT ![r] =
                 [@ EXCEPT !.pc = "done", !.stage = h.stage, !.status = h.response.status]]
          /\ applog' = applog \cup h.log
    /\ UNCHANGED <<activity, now, ConcIdleVars>>

ConcNext ==
    \E r \in ConcurrentRequests :
        \/ Receive(r)
        \/ ReadActivity(r)
        \/ OpenActivity(r)
        \/ DumpActivity(r)
        \/ CallAndParse(r)
        \/ ReadGenerations(r)
        \/ OpenGenerations(r)
        \/ DumpGenerations(r)

ConcSpec == Init /\ [][ConcNext]_vars

\* the request has finished its append to the activity log
AppendedActivity(r) ==
    inflight[r].pc \in {"call", "read_generations", "open_generations",
                        "dump_generations", "done"}
        /\ inflight[r].stage # "activity_log_raised"

\* C8: two concurrent generate-options requests for one session can interleave
\* the read-modify-write of the session's activity log, both reading the old
\* sequence before either writes, so that both have completed their append
\* and the file holds only one of the two entries. Such a loss needs the two
\* requests on different worker processes: whenever both have appended and an
\* entry is missing, the workers differ and the file holds exactly the entry
\* of one of them.
C8_LostUpdateAcrossWorkers ==
    \A r1 \in ConcurrentRequests, r2 \in ConcurrentRequests :
        (/\ r1 # r2
         /\ AppendedActivity(r1) /\ AppendedActivity(r2)
         /\ inflight[r1].session = inflight[r2].session
         /\ activity[inflight[r1].session]
                # ListFile(<<ActivityOf(inflight[r1]), ActivityOf(inflight[r2])>>)
         /\ activity[inflight[r1].session]
                # ListFile(<<ActivityOf(inflight[r2]), ActivityOf(inflight[r1])>>))
        => /\ inflight[r1].worker # inflight[r2].worker
           /\ \/ activity[inflight[r1].session] = ListFile(<<ActivityOf(inflight[r1])>>)
              \/ activity[inflight[r1].session] = ListFile(<<ActivityOf(inflight[r2])>>)

\* both requests read the empty log before either wrote, both finished, and
\* the file holds one entry
C8_Witness ==
    /\ inflight["r1"].pc = "done" /\ inflight["r2"].pc = "done"
    /\ AppendedActivity("r1") /\ AppendedActivity("r2")
    /\ inflight["r1"].session = inflight["r2"].session
    /\ inflight["r1"].data # inflight["r2"].data
    /\ Len(activity[inflight["r1"].session].entries) = 1

====
